---- MODULE Spec2Model ----
(***************************************************************************)
(* Model of the chunk dispatch / cache / merge engine of pdf2md            *)
(* (src/processor.py): UsageTracker, APIClient.process_chunk and           *)
(* PDFProcessor.split_pdf / process_pdf.                                   *)
(*                                                                         *)
(* Strings are sequences of tokens, so that str.replace, os.path.basename  *)
(* and os.path.join are computed rather than assumed.  One document (one   *)
(* pdf_hash) is processed by successive process_pdf calls of one session;  *)
(* its chunks are run by a pool of max_workers threads, each thread step   *)
(* being one action.  Local file I/O (cache file, usage file) is assumed   *)
(* not to raise; the remote endpoints and the image host may answer        *)
(* anything.                                                               *)
(***************************************************************************)
EXTENDS Integers, Sequences, FiniteSets, TLC

\* ---------------------------------------------------------------- bounds
MaxPages == 21          \* largest page count of the document
MaxCalls == 2           \* process_pdf calls made in one session
MaxSplitPages == 12     \* split_pdf on its own: largest page count
MaxSplitSize == 4       \* split_pdf on its own: largest chunk size
NumSessions == 2        \* sessions sharing one credential and one cache
MaxSessionCalls == 2    \* process_chunk calls made by each of them
MaxMergePages == 2      \* merge on its own: page records of the chunk
MaxPageImages == 2      \* merge on its own: images of one page record

\* ------------------------------------------------------ program constants
limit == 3000           \* UsageTracker.limit
chunk_size == 10        \* PDFProcessor.chunk_size
max_workers == 2        \* ThreadPoolExecutor(max_workers=2)
chunk_weight == 10      \* tracker.add_usage(10)

\* the endpoints tried in the opposite order
urls_swapped == <<"secondary", "primary">>

\* urls = [self.primary_url, self.secondary_url]
urls == <<"primary", "secondary">>

VARIABLES
  npages,          \* len(reader.pages) of the uploaded document
  data,            \* tracker.data[today] (0 when the key is absent)
  file,            \* today's counter in usage_tracking_<hash>.json
  cache,           \* cache/<pdf_hash>/chunk_<i>.json : chunk index -> entry
  mainpc,          \* position of the thread running process_pdf
  calls,           \* number of process_pdf calls started
  tpc,             \* per submitted chunk: position of its process_chunk call
  turl,            \* per chunk: index into urls of the current attempt
  tres,            \* per chunk: result["result"] of the valid response
  tcur,            \* per chunk: local `current` of its add_usage call
  fut,             \* per chunk: outcome of its future
  reqlog,          \* per chunk: requests sent by its process_chunk call
  results,         \* results list of process_pdf
  order,           \* chunk indices in the order as_completed yielded them
  completed_count, \* completed_count of process_pdf
  progress,        \* values passed to progress_callback
  retval,          \* value returned by process_pdf
  gets,            \* image GET requests sent by the current call
  imgfail,         \* urls whose image GET raised in the current call
  posts,           \* parse requests sent by the current call
  added,           \* add_usage calls that have returned (whole session)
  charged,         \* per chunk key: add_usage calls made for it
  usage0,          \* today's counter when the session started
  callstart,       \* data, and whether every chunk was cached, at call start
  prevret,         \* value returned by the previous successful call
  error,           \* exception process_pdf raised
  trace,           \* whether reqlog is being recorded
  sess,            \* sessions sharing the files: tracker and process_chunk call
  mrg,             \* the merge loop on its own: input, position, accumulators
  sN, sS, sOut     \* split_pdf on its own: pages, chunk size, returned value

vars == <<npages, data, file, cache, mainpc, calls, tpc, turl, tres, tcur,
          fut, reqlog, results, order, completed_count, progress, retval,
          gets, imgfail, posts, added, charged, usage0, callstart, prevret, error, trace, sess, mrg,
          sN, sS, sOut>>

\* Python's None, where the other values are records
None == [none |-> TRUE]

NoError == "no error"

Min(a, b) == IF a < b THEN a ELSE b

\* range(start, stop, step) as a sequence
RECURSIVE Range(_, _, _)
Range(start, stop, step) ==
  IF start >= stop THEN <<>>
  ELSE <<start>> \o Range(start + step, stop, step)

\* ------------------------------------------------------------- split_pdf
\* a chunk built without clamping its end to the page count
ChunkOf_nomin(i, size, pages_to_process) == <<i, Range(i, i + size, 1)>>

\* One chunk: (start_page_index, chunk_bytes); the bytes of a chunk are the
\* pages the PdfWriter was given, in the order they were added.
ChunkOf(i, size, pages_to_process) ==
  LET end == Min(i + size, pages_to_process)
  IN  <<i, Range(i, end, 1)>>

SplitPdf(total_pages, size) ==
  LET pages_to_process == total_pages
      starts == Range(0, pages_to_process, size)
  IN  [chunks |-> [k \in 1..Len(starts) |->
                      ChunkOf(starts[k], size, pages_to_process)],
       total_pages |-> total_pages]

\* enumerate(chunks): chunk indices of the document
NumChunks == Len(SplitPdf(npages, chunk_size).chunks)
Idx == 0..(NumChunks - 1)

\* ------------------------------------------------------------ text, paths
Digit == <<"0", "1", "2", "3", "4", "5", "6", "7", "8", "9">>
Str(i) == Digit[i + 1]

RECURSIVE LastSlash(_, _)
LastSlash(p, k) ==
  IF k = 0 THEN 0 ELSE IF p[k] = "/" THEN k ELSE LastSlash(p, k - 1)

\* os.path.basename
Basename(p) == SubSeq(p, LastSlash(p, Len(p)) + 1, Len(p))

\* os.path.join("images", name), name not absolute
JoinImages(name) == <<"images", "/">> \o name

\* the new name built without the chunk index
NewPath_noindex(i, relative_path) ==
  JoinImages(<<"chunk_">> \o Basename(relative_path))

\* f"chunk_{i}_{filename}" joined under images/
NewPath(i, relative_path) ==
  JoinImages(<<"chunk_", Str(i), "_">> \o Basename(relative_path))

\* str.replace(old, new): every non-overlapping occurrence, left to right
RECURSIVE Replace(_, _, _)
Replace(s, old, new) ==
  IF Len(old) = 0 \/ Len(s) < Len(old) THEN s
  ELSE IF SubSeq(s, 1, Len(old)) = old
       THEN new \o Replace(SubSeq(s, Len(old) + 1, Len(s)), old, new)
       ELSE <<Head(s)>> \o Replace(Tail(s), old, new)

\* ------------------------------------------------- the remote collaborator
\* result.layoutParsingResults an endpoint returns for chunk i: one record
\* per page (two at most are modelled), each with markdown.text and
\* markdown.images (relative path -> url, in the order of the JSON object).
ImgPath == <<"images", "/", "img_0.jpg">>

\* The first page of every chunk shows one image, under the same relative
\* path in every chunk; the other pages have no image.
PageRecord(e, i, p) ==
  IF p = 0
  THEN [text   |-> <<"page", Str(i), Str(p), e, "![](">> \o ImgPath \o <<")">>,
        images |-> <<[path |-> ImgPath, url |-> <<"url", Str(i)>>]>>]
  ELSE [text   |-> <<"page", Str(i), Str(p), e>>,
        images |-> <<>>]

RecordsIn(i) ==
  Min(2, Len(SplitPdf(npages, chunk_size).chunks[i + 1][2]))

ParseResult(e, i) ==
  [layoutParsingResults |-> [p \in 1..RecordsIn(i) |-> PageRecord(e, i, p - 1)]]

\* What one requests.post can come back with.
Responses(e, i) ==
  { [tag |-> "neterr",   exc |-> TRUE,  status |-> 0,   json |-> FALSE,
     body |-> [x |-> 0]],
    [tag |-> "http500",  exc |-> FALSE, status |-> 500, json |-> TRUE,
     body |-> [errorMsg |-> "e"]],
    [tag |-> "http401",  exc |-> FALSE, status |-> 401, json |-> TRUE,
     body |-> [errorMsg |-> "e"]],
    [tag |-> "notjson",  exc |-> FALSE, status |-> 200, json |-> FALSE,
     body |-> [x |-> 0]],
    [tag |-> "noresult", exc |-> FALSE, status |-> 200, json |-> TRUE,
     body |-> [errorMsg |-> "e"]],
    [tag |-> "nolayout", exc |-> FALSE, status |-> 200, json |-> TRUE,
     body |-> [result |-> [dataInfo |-> "d"]]],
    [tag |-> "valid",    exc |-> FALSE, status |-> 200, json |-> TRUE,
     body |-> [result |-> ParseResult(e, i)]] }

\* the test without the check for layoutParsingResults
ResponseOk_noshape(r) ==
  ~r.exc /\ r.status = 200 /\ r.json /\ "result" \in DOMAIN r.body

\* The test of lines 94-101: no exception from post, status 200, a JSON body
\* with "result" and "layoutParsingResults" in result["result"].
ResponseOk(r) ==
  /\ ~r.exc
  /\ r.status = 200
  /\ r.json
  /\ "result" \in DOMAIN r.body
  /\ "layoutParsingResults" \in DOMAIN r.body.result

\* ------------------------------------------------------------ UsageTracker
get_todays_usage == data

\* the test made on the pages to add alone
check_limit_pagesonly(pages_to_add) == pages_to_add <= limit

\* lines 52-53
check_limit(pages_to_add) == (get_todays_usage + pages_to_add) <= limit

\* ------------------------------------------------------------------ merge
\* requests.get(img_url).content
Content(url) == <<"bytes">> \o url

Put(m, k, v) == [x \in DOMAIN m \cup {k} |-> IF x = k THEN v ELSE m[x]]

EmptyMap == [x \in {} |-> <<>>]

\* the image stored under the path the API gave, not under the new path
MergeImage_oldkey(st, i, img, failed) ==
  [text       |-> Replace(st.text, img.path, NewPath(i, img.path)),
   images_map |-> IF img.url \in failed THEN st.images_map
                  ELSE Put(st.images_map, img.path, Content(img.url)),
   gets       |-> st.gets + 1]

\* lines 232-246, one (relative_path, img_url) item of page_images; failed is
\* the set of urls whose download raises
MergeImage(st, i, img, failed) ==
  LET new_path == NewPath(i, img.path)
  IN  [text       |-> Replace(st.text, img.path, new_path),
       images_map |-> IF img.url \in failed THEN st.images_map
                      ELSE Put(st.images_map, new_path, Content(img.url)),
       gets       |-> st.gets + 1]

RECURSIVE MergeImages(_, _, _, _, _)
MergeImages(st, i, imgs, k, failed) ==
  IF k > Len(imgs) THEN st
  ELSE MergeImages(MergeImage(st, i, imgs[k], failed), i, imgs, k + 1, failed)

\* lines 226-248, one page_res: acc carries chunk_markdown, images_map, gets
MergePage(acc, i, page_res, failed) ==
  LET st == MergeImages([text |-> page_res.text,
                         images_map |-> acc.images_map,
                         gets |-> acc.gets],
                        i, page_res.images, 1, failed)
  IN  [markdown   |-> acc.markdown \o st.text \o <<"\n\n">>,
       images_map |-> st.images_map,
       gets       |-> st.gets]

RECURSIVE MergePages(_, _, _, _, _)
MergePages(acc, i, pages, k, failed) ==
  IF k > Len(pages) THEN acc
  ELSE MergePages(MergePage(acc, i, pages[k], failed), i, pages, k + 1, failed)

\* lines 219-250: for i, res in enumerate(results)
RECURSIVE MergeResults(_, _, _, _)
MergeResults(acc, res_list, i, failed) ==
  IF i >= Len(res_list) THEN acc
  ELSE IF res_list[i + 1] = None THEN MergeResults(acc, res_list, i + 1, failed)
  ELSE MergeResults(
         MergePages(acc, i, res_list[i + 1].layoutParsingResults, 1, failed),
         res_list, i + 1, failed)

Merge(res_list, failed) ==
  MergeResults([markdown |-> <<>>, images_map |-> EmptyMap, gets |-> 0],
               res_list, 0, failed)

\* every url a result list refers to
UrlsOf(res_list) ==
  { res_list[k].layoutParsingResults[p].images[j].url :
      <<k, p, j>> \in
        { t \in (1..Len(res_list)) \X (1..2) \X (1..1) :
            /\ res_list[t[1]] # None
            /\ t[2] <= Len(res_list[t[1]].layoutParsingResults)
            /\ t[3] <= Len(res_list[t[1]].layoutParsingResults[t[2]].images) } }

\* the result stored in completion order instead of by chunk index
StoreResult_append(res_list, i, k, res) == [res_list EXCEPT ![k + 1] = res]

\* results[i] = res
StoreResult(res_list, i, k, res) == [res_list EXCEPT ![i + 1] = res]

\* ------------------------------------------------------------ the session
Running == {"post", "add_usage", "add_store", "add_save"}

Session(n, u) ==
  /\ npages = n
  /\ data = u /\ file = u /\ usage0 = u
  /\ cache = [i \in 0..(Len(SplitPdf(n, chunk_size).chunks) - 1) |-> None]
  /\ mainpc = "idle" /\ calls = 0
  /\ tpc = <<>> /\ turl = <<>> /\ tres = <<>> /\ tcur = <<>>
  /\ fut = <<>> /\ reqlog = <<>>
  /\ results = <<>> /\ order = <<>> /\ completed_count = 0
  /\ progress = <<>> /\ retval = None /\ gets = 0 /\ posts = 0
  /\ imgfail = {}
  /\ added = 0
  /\ charged = [i \in 0..(Len(SplitPdf(n, chunk_size).chunks) - 1) |-> 0]
  /\ callstart = [usage |-> u, warm |-> FALSE]
  /\ prevret = None /\ error = NoError

\* today's counter found by _load: nothing used, exactly at the limit, over it
InitUsages == {0, limit, limit + chunk_weight}

Init ==
  /\ \E n \in 0..MaxPages, u \in InitUsages : Session(n, u)
  /\ trace = FALSE
  /\ sess = <<>>
  /\ mrg = [pc |-> "none"]
  /\ sN = 0 /\ sS = 1 /\ sOut = None

splitvars == <<sN, sS, sOut>>
sessvars == <<npages, usage0, trace, sess, mrg>>
callvars == <<calls, callstart, prevret>>

\* process_pdf, lines 172-196: split, hash, quota pre-check, submit all
ProcessPdf ==
  /\ mainpc \in {"idle", "returned", "raised"}
  /\ calls < MaxCalls
  /\ calls' = calls + 1
  /\ callstart' = [usage |-> data, warm |-> \A i \in Idx : cache[i] # None]
  /\ prevret' = IF mainpc = "returned" THEN retval ELSE prevret
  /\ retval' = None
  /\ results' = [k \in 1..NumChunks |-> None]
  /\ order' = <<>> /\ completed_count' = 0 /\ progress' = <<>>
  /\ gets' = 0 /\ posts' = 0 /\ imgfail' = {}
  /\ IF ~check_limit(0)
     THEN /\ mainpc' = "raised" /\ error' = "Daily limit reached"
          /\ tpc' = <<>> /\ turl' = <<>> /\ tres' = <<>> /\ tcur' = <<>>
          /\ fut' = <<>> /\ reqlog' = <<>>
     ELSE /\ mainpc' = "as_completed" /\ error' = NoError
          /\ tpc' = [i \in Idx |-> "queued"]
          /\ turl' = [i \in Idx |-> 1]
          /\ tres' = [i \in Idx |-> None]
          /\ tcur' = [i \in Idx |-> 0]
          /\ fut' = [i \in Idx |-> None]
          /\ reqlog' = [i \in Idx |-> <<>>]
  /\ UNCHANGED <<data, file, cache, added, charged>>
  /\ UNCHANGED <<sessvars, splitvars>>

PoolAlive == mainpc \in {"as_completed", "shutdown"}

mainvars == <<mainpc, results, order, completed_count, progress, retval,
              gets, imgfail, error>>

\* process_chunk without the cache check
Start_nocache(i) ==
  /\ PoolAlive
  /\ tpc[i] = "queued"
  /\ \A j \in Idx : j < i => tpc[j] # "queued"
  /\ Cardinality({j \in Idx : tpc[j] \in Running}) < max_workers
  /\ tpc' = [tpc EXCEPT ![i] = "post"]
  /\ UNCHANGED <<data, file, cache, turl, tres, tcur, fut, reqlog, posts,
                 added, charged>>
  /\ UNCHANGED <<mainvars, callvars, sessvars, splitvars>>

\* work items started without regard to the size of the pool
Start_unbounded(i) ==
  /\ PoolAlive
  /\ tpc[i] = "queued"
  /\ \A j \in Idx : j < i => tpc[j] # "queued"
  /\ IF cache[i] # None
     THEN /\ tpc' = [tpc EXCEPT ![i] = "done"]
          /\ fut' = [fut EXCEPT ![i] = [ok |-> TRUE, res |-> cache[i]]]
     ELSE /\ tpc' = [tpc EXCEPT ![i] = "post"]
          /\ fut' = fut
  /\ UNCHANGED <<data, file, cache, turl, tres, tcur, reqlog, posts,
                 added, charged>>
  /\ UNCHANGED <<mainvars, callvars, sessvars, splitvars>>

\* a free pool thread takes the next work item (FIFO) and enters
\* process_chunk, lines 71-80: the cache check
Start(i) ==
  /\ PoolAlive
  /\ tpc[i] = "queued"
  /\ \A j \in Idx : j < i => tpc[j] # "queued"
  /\ Cardinality({j \in Idx : tpc[j] \in Running}) < max_workers
  /\ IF cache[i] # None
     THEN /\ tpc' = [tpc EXCEPT ![i] = "done"]
          /\ fut' = [fut EXCEPT ![i] = [ok |-> TRUE, res |-> cache[i]]]
     ELSE /\ tpc' = [tpc EXCEPT ![i] = "post"]
          /\ fut' = fut
  /\ UNCHANGED <<data, file, cache, turl, tres, tcur, reqlog, posts,
                 added, charged>>
  /\ UNCHANGED <<mainvars, callvars, sessvars, splitvars>>

\* process_chunk, lines 93-104 and 121-133: one requests.post, the test of
\* its response, and the cache write when the response passes
Post(i) ==
  /\ PoolAlive
  /\ tpc[i] = "post"
  /\ \E r \in Responses(urls[turl[i]], i) :
       /\ posts' = posts + 1
       /\ reqlog' = IF trace
                    THEN [reqlog EXCEPT ![i] = Append(@, <<urls[turl[i]], r.tag>>)]
                    ELSE reqlog
       /\ IF ResponseOk(r)
          THEN /\ tres' = [tres EXCEPT ![i] = r.body.result]
               /\ cache' = [cache EXCEPT ![i] = r.body.result]
               /\ tpc' = [tpc EXCEPT ![i] = "add_usage"]
               /\ UNCHANGED <<turl, fut>>
          ELSE IF turl[i] < Len(urls)
          THEN /\ turl' = [turl EXCEPT ![i] = @ + 1]
               /\ UNCHANGED <<tres, tpc, fut, cache>>
          ELSE /\ tpc' = [tpc EXCEPT ![i] = "done"]
               /\ fut' = [fut EXCEPT ![i] =
                            [ok |-> FALSE, res |-> "All API endpoints failed."]]
               /\ UNCHANGED <<turl, tres, cache>>
  /\ UNCHANGED <<data, file, tcur, added, charged>>
  /\ UNCHANGED <<mainvars, callvars, sessvars, splitvars>>

\* add_usage, line 48: current = self.data.get(today_str, 0)
AddUsageRead(i) ==
  /\ PoolAlive
  /\ tpc[i] = "add_usage"
  /\ tcur' = [tcur EXCEPT ![i] = data]
  /\ charged' = [charged EXCEPT ![i] = @ + 1]
  /\ tpc' = [tpc EXCEPT ![i] = "add_store"]
  /\ UNCHANGED <<data, file, cache, turl, tres, fut, reqlog, posts, added>>
  /\ UNCHANGED <<mainvars, callvars, sessvars, splitvars>>

\* add_usage, line 49: self.data[today_str] = current + pages
AddUsageStore(i) ==
  /\ PoolAlive
  /\ tpc[i] = "add_store"
  /\ data' = tcur[i] + chunk_weight
  /\ tpc' = [tpc EXCEPT ![i] = "add_save"]
  /\ UNCHANGED <<file, cache, turl, tres, tcur, fut, reqlog, posts,
                 added, charged>>
  /\ UNCHANGED <<mainvars, callvars, sessvars, splitvars>>

\* add_usage, line 50: self._save(); then process_chunk returns (line 120)
AddUsageSave(i) ==
  /\ PoolAlive
  /\ tpc[i] = "add_save"
  /\ file' = data
  /\ added' = added + 1
  /\ tpc' = [tpc EXCEPT ![i] = "done"]
  /\ fut' = [fut EXCEPT ![i] = [ok |-> TRUE, res |-> tres[i]]]
  /\ UNCHANGED <<data, cache, turl, tres, tcur, reqlog, posts, charged>>
  /\ UNCHANGED <<mainvars, callvars, sessvars, splitvars>>

InOrder(i) == \E k \in 1..Len(order) : order[k] = i

taskvars == <<tpc, turl, tres, tcur, fut, posts, added, charged, data, file,
              cache>>

\* the fraction computed from the count before it is incremented
ProgressValue_early(completed, n) == <<completed - 1, n>>

\* line 213: completed_count / len(chunks), kept as (numerator, denominator)
ProgressValue(completed, n) == <<completed, n>>

\* the loop logging a failed chunk and going on instead of raising
Collect_continue(i) ==
  /\ mainpc = "as_completed"
  /\ tpc[i] = "done"
  /\ ~InOrder(i)
  /\ order' = Append(order, i)
  /\ IF fut[i].ok
     THEN /\ results' = StoreResult(results, i, completed_count, fut[i].res)
          /\ completed_count' = completed_count + 1
          /\ progress' = Append(progress,
                               ProgressValue(completed_count + 1, NumChunks))
          /\ reqlog' = [reqlog EXCEPT ![i] = <<>>]
     ELSE UNCHANGED <<results, completed_count, progress, reqlog>>
  /\ UNCHANGED <<mainpc, error, retval, gets, imgfail>>
  /\ UNCHANGED <<taskvars, callvars, sessvars, splitvars>>

\* process_pdf, lines 199-213: one iteration of the as_completed loop
Collect(i) ==
  /\ mainpc = "as_completed"
  /\ tpc[i] = "done"
  /\ ~InOrder(i)
  /\ order' = Append(order, i)
  /\ IF fut[i].ok
     THEN /\ results' = StoreResult(results, i, completed_count, fut[i].res)
          /\ completed_count' = completed_count + 1
          /\ progress' = Append(progress,
                               ProgressValue(completed_count + 1, NumChunks))
          /\ reqlog' = [reqlog EXCEPT ![i] = <<>>]
          /\ UNCHANGED <<mainpc, error>>
     ELSE /\ mainpc' = "shutdown"
          /\ error' = fut[i].res
          /\ UNCHANGED <<results, completed_count, progress, reqlog>>
  /\ UNCHANGED <<retval, gets, imgfail>>
  /\ UNCHANGED <<taskvars, callvars, sessvars, splitvars>>

\* leaving the with block after `raise e`: shutdown(wait=True) lets every
\* running and queued work item finish, then the exception propagates
Raise ==
  /\ mainpc = "shutdown"
  /\ \A i \in Idx : tpc[i] = "done"
  /\ mainpc' = "raised"
  /\ UNCHANGED <<results, order, completed_count, progress, retval, gets,
                 imgfail, error, reqlog>>
  /\ UNCHANGED <<taskvars, callvars, sessvars, splitvars>>

\* process_pdf, lines 219-255: merge and return
MergeAndReturn ==
  /\ mainpc = "as_completed"
  /\ Len(order) = NumChunks
  /\ \E failed \in SUBSET UrlsOf(results) :
       LET m == Merge(results, failed)
       IN  /\ retval' = [markdown |-> m.markdown, images_map |-> m.images_map]
           /\ gets' = m.gets
           /\ imgfail' = failed
  /\ mainpc' = "returned"
  /\ UNCHANGED <<results, order, completed_count, progress, error, reqlog>>
  /\ UNCHANGED <<taskvars, callvars, sessvars, splitvars>>

Next ==
  \/ ProcessPdf
  \/ \E i \in Idx : Start(i)
  \/ \E i \in Idx : Post(i)
  \/ \E i \in Idx : AddUsageRead(i)
  \/ \E i \in Idx : AddUsageStore(i)
  \/ \E i \in Idx : AddUsageSave(i)
  \/ \E i \in Idx : Collect(i)
  \/ Raise
  \/ MergeAndReturn

Spec == Init /\ [][Next]_vars

\* ------------------------------------- process_chunk calls one at a time
\* A document of one chunk: each process_pdf call makes one process_chunk
\* call, and the requests of that call are recorded.
InitChunk ==
  /\ \E n \in 1..chunk_size, u \in InitUsages : Session(n, u)
  /\ trace = TRUE
  /\ sess = <<>>
  /\ mrg = [pc |-> "none"]
  /\ sN = 0 /\ sS = 1 /\ sOut = None

SpecChunk == InitChunk /\ [][Next]_vars

\* ------------------------------------------------- split_pdf on its own
InitSplit ==
  /\ Session(0, 0)
  /\ trace = FALSE
  /\ sess = <<>>
  /\ mrg = [pc |-> "none"]
  /\ sN \in 0..MaxSplitPages
  /\ sS \in 1..MaxSplitSize
  /\ sOut = None

SplitCall ==
  /\ sOut = None
  /\ sOut' = SplitPdf(sN, sS)
  /\ UNCHANGED <<sN, sS>>
  /\ UNCHANGED <<mainvars, taskvars, callvars, sessvars, reqlog>>

NextSplit == SplitCall

SpecSplit == InitSplit /\ [][NextSplit]_vars

\* ------------------------------------ sessions sharing cache and usage file
\* src/app.py lines 48-50 build one PDFProcessor, hence one UsageTracker, per
\* browser session; sessions with the same token share the usage file, and
\* all sessions share the cache directory.  Each session here makes its
\* process_chunk calls one after the other, for the chunks of one document;
\* the cache file of a chunk is created empty by open(cache_file, 'w') and
\* gets its content when json.dump has run and the file is closed.
Sessions == 1..NumSessions

\* a cache file that exists and does not hold the whole JSON text yet
Partial == [partial |-> TRUE]

InitMulti ==
  /\ Session(chunk_size + 1, 0)
  /\ trace = FALSE
  /\ sess = [s \in Sessions |->
               [pc |-> "none", key |-> 0, url |-> 1, res |-> None, cur |-> 0,
                data |-> 0, ret |-> None, hit |-> FALSE, ncalls |-> 0,
                nadds |-> 0]]
  /\ mrg = [pc |-> "none"]
  /\ sN = 0 /\ sS = 1 /\ sOut = None

multirest == <<mainvars, callvars, splitvars, npages, usage0, trace, mrg, reqlog,
               tpc, turl, tres, tcur, fut, posts, added, charged, data>>

\* PDFProcessor.__init__ -> UsageTracker.__init__ -> _load
NewSession(s) ==
  /\ sess[s].pc = "none"
  /\ sess' = [sess EXCEPT ![s].pc = "idle", ![s].data = file]
  /\ UNCHANGED <<cache, file, multirest>>

\* process_chunk is entered for chunk k
CallChunk(s, k) ==
  /\ sess[s].pc = "idle"
  /\ sess[s].ncalls < MaxSessionCalls
  /\ sess' = [sess EXCEPT ![s].pc = "check", ![s].key = k, ![s].url = 1,
                          ![s].res = None, ![s].ret = None,
                          ![s].hit = FALSE, ![s].ncalls = @ + 1]
  /\ UNCHANGED <<cache, file, multirest>>

\* line 77: os.path.exists(cache_file)
CheckCache(s) ==
  /\ sess[s].pc = "check"
  /\ IF cache[sess[s].key] # None
     THEN sess' = [sess EXCEPT ![s].pc = "read", ![s].hit = TRUE]
     ELSE sess' = [sess EXCEPT ![s].pc = "post"]
  /\ UNCHANGED <<cache, file, multirest>>

\* lines 79-80: json.load of the cache file; it raises on an incomplete text
ReadCache(s) ==
  /\ sess[s].pc = "read"
  /\ sess' = [sess EXCEPT
                ![s].pc = "idle",
                ![s].ret = IF cache[sess[s].key] = Partial
                           THEN [ok |-> FALSE, res |-> "JSONDecodeError"]
                           ELSE [ok |-> TRUE, res |-> cache[sess[s].key]]]
  /\ UNCHANGED <<cache, file, multirest>>

\* lines 93-101 and 121-133: one requests.post and the test of its response
PostChunk(s) ==
  /\ sess[s].pc = "post"
  /\ \E r \in Responses(urls[sess[s].url], sess[s].key) :
       IF ResponseOk(r)
       THEN sess' = [sess EXCEPT ![s].pc = "open", ![s].res = r.body.result]
       ELSE IF sess[s].url < Len(urls)
       THEN sess' = [sess EXCEPT ![s].url = @ + 1]
       ELSE sess' = [sess EXCEPT
                       ![s].pc = "idle",
                       ![s].ret = [ok |-> FALSE,
                                   res |-> "All API endpoints failed."]]
  /\ UNCHANGED <<cache, file, multirest>>

\* line 103: open(cache_file, 'w') creates or truncates the file
OpenCache(s) ==
  /\ sess[s].pc = "open"
  /\ cache' = [cache EXCEPT ![sess[s].key] = Partial]
  /\ sess' = [sess EXCEPT ![s].pc = "dump"]
  /\ UNCHANGED <<file, multirest>>

\* line 104: json.dump, and the file is closed
DumpCache(s) ==
  /\ sess[s].pc = "dump"
  /\ cache' = [cache EXCEPT ![sess[s].key] = sess[s].res]
  /\ sess' = [sess EXCEPT ![s].pc = "add_usage"]
  /\ UNCHANGED <<file, multirest>>

\* add_usage, line 48, on the session's own tracker
SessAddRead(s) ==
  /\ sess[s].pc = "add_usage"
  /\ sess' = [sess EXCEPT ![s].pc = "add_store", ![s].cur = sess[s].data]
  /\ UNCHANGED <<cache, file, multirest>>

\* add_usage, line 49
SessAddStore(s) ==
  /\ sess[s].pc = "add_store"
  /\ sess' = [sess EXCEPT ![s].pc = "add_save",
                          ![s].data = sess[s].cur + chunk_weight]
  /\ UNCHANGED <<cache, file, multirest>>

\* add_usage, line 50: _save rewrites the whole file from self.data; then
\* process_chunk returns (line 120)
SessAddSave(s) ==
  /\ sess[s].pc = "add_save"
  /\ file' = sess[s].data
  /\ sess' = [sess EXCEPT ![s].pc = "idle", ![s].nadds = @ + 1,
                          ![s].ret = [ok |-> TRUE, res |-> sess[s].res]]
  /\ UNCHANGED <<cache, multirest>>

NextMulti ==
  \/ \E s \in Sessions : NewSession(s)
  \/ \E s \in Sessions : \E k \in Idx : CallChunk(s, k)
  \/ \E s \in Sessions : CheckCache(s)
  \/ \E s \in Sessions : ReadCache(s)
  \/ \E s \in Sessions : PostChunk(s)
  \/ \E s \in Sessions : OpenCache(s)
  \/ \E s \in Sessions : DumpCache(s)
  \/ \E s \in Sessions : SessAddRead(s)
  \/ \E s \in Sessions : SessAddStore(s)
  \/ \E s \in Sessions : SessAddSave(s)

SpecMulti == InitMulti /\ [][NextMulti]_vars


\* --------------------------------------------------- the merge on its own
\* Lines 226-248 of process_pdf applied to the result of one chunk whose page
\* records carry up to MaxPageImages images each.  page_images is a dict, so
\* the relative paths of one page record are distinct; its items come in the
\* order of the JSON object.
MergePaths ==
  { ImgPath,
    <<"images", "/", "a", "/", "x.jpg">>,
    <<"images", "/", "b", "/", "x.jpg">> }

\* the items of one page_images dict, as the sequence of their keys
PathSeqs ==
  { q \in UNION { [1..n -> MergePaths] : n \in 0..MaxPageImages } :
      \A a, b \in DOMAIN q : a # b => q[a] # q[b] }

RECURSIVE RefText(_, _)
\* the image references of a page text, one per image from the k-th on
RefText(q, k) ==
  IF k > Len(q) THEN <<>>
  ELSE <<"![](">> \o q[k] \o <<")">> \o RefText(q, k + 1)

\* page record p of the chunk: markdown.text and markdown.images
MergePageRecord(p, q) ==
  [text   |-> <<"page", Str(p)>> \o RefText(q, 1),
   images |-> [j \in 1..Len(q) |->
                 [path |-> q[j], url |-> <<"url", Str(p), Str(j)>>]]]

\* res["layoutParsingResults"] of the chunk
MergeInputs ==
  { [p \in 1..n |-> MergePageRecord(p - 1, qs[p])] :
      <<n, qs>> \in { t \in (1..MaxMergePages) \X
                              UNION { [1..m -> PathSeqs] : m \in 1..MaxMergePages } :
                        Len(t[2]) = t[1] } }

InitMerge ==
  /\ Session(0, 0)
  /\ trace = FALSE
  /\ sess = <<>>
  /\ sN = 0 /\ sS = 1 /\ sOut = None
  /\ \E i \in 0..1, pages \in MergeInputs :
       mrg = [pc |-> "merge", i |-> i, pages |-> pages, k |-> 1,
              acc |-> [markdown |-> <<>>, images_map |-> EmptyMap, gets |-> 0],
              failed |-> {}]

mergerest == <<mainvars, callvars, splitvars, taskvars, npages, usage0, trace,
               sess, reqlog>>

\* lines 226-248: one page_res of the chunk; f is the set of its image urls
\* whose requests.get raises
MergeOnePage ==
  /\ mrg.pc = "merge"
  /\ mrg.k <= Len(mrg.pages)
  /\ LET page_res == mrg.pages[mrg.k]
     IN  \E f \in SUBSET { page_res.images[j].url : j \in DOMAIN page_res.images } :
           mrg' = [mrg EXCEPT !.acc = MergePage(mrg.acc, mrg.i, page_res, f),
                              !.k = @ + 1,
                              !.failed = @ \cup f]
  /\ UNCHANGED mergerest

\* line 250 for this chunk, and the return of line 255
MergeReturn ==
  /\ mrg.pc = "merge"
  /\ mrg.k > Len(mrg.pages)
  /\ mrg' = [mrg EXCEPT !.pc = "returned"]
  /\ UNCHANGED mergerest

NextMerge ==
  \/ MergeOnePage
  \/ MergeReturn

SpecMerge == InitMerge /\ [][NextMerge]_vars

\* ================================================================ claims

RECURSIVE Concat(_, _, _)
\* f[from] \o ... \o f[to] for a function f from integers to sequences
Concat(f, from, to) ==
  IF from > to THEN <<>> ELSE f[from] \o Concat(f, from + 1, to)

\* text of one page record with its image references rewritten for chunk i
RewrittenText(i, page_res) ==
  MergeImages([text |-> page_res.text, images_map |-> EmptyMap, gets |-> 0],
              i, page_res.images, 1, {}).text

\* the page texts of one chunk's result, in page order
ChunkMarkdown(i, res) ==
  Concat([p \in 1..Len(res.layoutParsingResults) |->
            RewrittenText(i, res.layoutParsingResults[p]) \o <<"\n\n">>],
         1, Len(res.layoutParsingResults))

\* what the futures delivered, in ascending chunk index
Delivered == [k \in 1..NumChunks |-> fut[k - 1].res]

\* C1: whenever process_pdf has returned, its markdown is the concatenation,
\* in ascending chunk index and page order, of the page texts the chunks'
\* futures delivered, and (markdown, assets) is determined by those results
\* and by the outcome of the image downloads alone, whatever the order in
\* which as_completed yielded the chunks.
C1_OrderedAssembly ==
  mainpc = "returned" =>
    /\ retval.markdown =
         Concat([k \in 1..NumChunks |-> ChunkMarkdown(k - 1, fut[k - 1].res)],
                1, NumChunks)
    /\ retval.images_map = Merge(Delivered, imgfail).images_map

\* three chunks returned after the last chunk completed first
C1_Witness ==
  /\ mainpc = "returned"
  /\ NumChunks = 3
  /\ order = <<2, 0, 1>>

\* C2: once a chunk of the batch has failed on every endpoint, process_pdf
\* has not returned and does not return a (markdown, assets) pair; and when
\* it has raised, every chunk of the batch has finished and every chunk that
\* got a valid response has that response as its cache entry.
C2_AllOrNothing ==
  /\ (\E i \in DOMAIN tpc : tpc[i] = "done" /\ ~fut[i].ok)
       => /\ mainpc # "returned"
          /\ retval = None
  /\ (mainpc = "raised" /\ error = "All API endpoints failed.")
       => /\ \E i \in Idx : ~fut[i].ok
          /\ \A i \in Idx : tpc[i] = "done"
          /\ \A i \in Idx : tres[i] # None => cache[i] = tres[i]

\* chunk 1 of 3 failed on both endpoints, chunks 0 and 2 were parsed
C2_Witness ==
  /\ mainpc = "raised"
  /\ error = "All API endpoints failed."
  /\ NumChunks = 3
  /\ ~fut[1].ok
  /\ tres[0] # None /\ tres[2] # None
  /\ cache[0] = tres[0] /\ cache[2] = tres[2]


\* C3: a process_pdf call that starts with every chunk of the document in
\* the cache, after an earlier call returned, returns, sends no request to
\* any remote host, returns what the earlier call returned and leaves
\* today's usage counter as it was.
C3_Idempotent ==
  (calls >= 2 /\ callstart.warm /\ prevret # None
   /\ mainpc \in {"returned", "raised"})
    => /\ mainpc = "returned"
       /\ posts = 0 /\ gets = 0
       /\ retval = prevret
       /\ data = callstart.usage /\ file = callstart.usage

InAddUsage == {"add_store", "add_save"}

\* C4: a process_chunk call that finds its cache entry returns that entry in
\* the same step, with no request sent and no usage added; and no chunk key
\* is charged to the quota more than once.
C4_CacheHit ==
  /\ [](\A i \in DOMAIN charged : charged[i] <= 1)
  /\ [][\A i \in DOMAIN tpc :
          (PoolAlive /\ tpc[i] = "queued" /\ cache[i] # None
           /\ i \in DOMAIN tpc' /\ tpc'[i] # "queued")
            => /\ tpc'[i] = "done"
               /\ fut'[i] = [ok |-> TRUE, res |-> cache[i]]
               /\ posts' = posts /\ reqlog' = reqlog
               /\ data' = data /\ file' = file
               /\ charged' = charged /\ added' = added
               /\ cache' = cache]_vars

\* a later call served a chunk from the cache that an earlier call paid for
C4_Witness ==
  \E i \in DOMAIN tpc :
    /\ tpc[i] = "done" /\ fut[i].ok
    /\ tres[i] = None
    /\ fut[i].res = cache[i]
    /\ charged[i] = 1
    /\ calls = 2

InvalidTags ==
  {"neterr", "http500", "http401", "notjson", "noresult", "nolayout"}

Last(q) == q[Len(q)]

C6_EndpointOrder ==
  \A i \in DOMAIN reqlog :
    LET L == reqlog[i] IN
    /\ Len(L) <= 2
    /\ \A k \in 1..Len(L) : L[k][1] = <<"primary", "secondary">>[k]
    /\ \A k \in 1..Len(L) :
         IF L[k][2] = "valid" THEN k = Len(L) /\ tpc[i] # "post"
         ELSE L[k][2] \in InvalidTags
    /\ tpc[i] = "post" => Len(L) = turl[i] - 1
    /\ (tpc[i] = "done" /\ ~fut[i].ok) =>
         /\ Len(L) = 2
         /\ \A k \in 1..2 : L[k][2] \in InvalidTags

\* a call raised after an error on the primary and a bad body on the secondary
C6_Witness ==
  \E i \in DOMAIN reqlog :
    /\ tpc[i] = "done" /\ ~fut[i].ok
    /\ reqlog[i] = <<<<"primary", "neterr">>, <<"secondary", "noresult">>>>

\* C7: a 401 answer ends the process_chunk call at once with an invalid
\* credential error: no further endpoint is tried, and process_pdf raises
\* that error, not the generic one.
C7_AuthAborts ==
  \A i \in DOMAIN reqlog :
    \A k \in 1..Len(reqlog[i]) :
      reqlog[i][k][2] = "http401" =>
        /\ k = Len(reqlog[i])
        /\ tpc[i] = "done"
        /\ ~fut[i].ok
        /\ fut[i].res = "InvalidTokenError"
        /\ mainpc = "raised" => error = "InvalidTokenError"

C9_QuotaBoundary ==
  /\ [](\A p \in 0..1 : check_limit(p) <=> (data + p <= limit))
  /\ [](data = limit => ~check_limit(1))
  /\ [](data = limit - 1 => check_limit(1))
  /\ [][data' >= data /\ file' >= file]_vars

\* C10: when no add_usage call is in progress, today's counter in memory and
\* on disk has grown by the chunk weight for every add_usage call that has
\* returned.
C10_NoLostIncrement ==
  (\A i \in DOMAIN tpc : tpc[i] \notin InAddUsage)
    => /\ data = usage0 + chunk_weight * added
       /\ file = usage0 + chunk_weight * added


\* C11: a process_pdf call made while today's usage is over the limit raises
\* the quota error in that very step: no chunk is submitted, no request is
\* sent, and the cache and the usage counter are left as they were.
C11_QuotaGate ==
  /\ [][(calls' = calls + 1 /\ data > limit)
          => /\ mainpc' = "raised"
             /\ error' = "Daily limit reached"
             /\ tpc' = <<>> /\ fut' = <<>>
             /\ posts' = 0 /\ gets' = 0
             /\ cache' = cache
             /\ data' = data /\ file' = file]_vars
  /\ []((mainpc = "raised" /\ error = "Daily limit reached")
          => /\ callstart.usage > limit
             /\ DOMAIN tpc = {}
             /\ posts = 0 /\ gets = 0
             /\ data = callstart.usage /\ file = callstart.usage)

\* a second call rejected after the first one took the counter over the limit
C11_Witness ==
  /\ mainpc = "raised"
  /\ error = "Daily limit reached"
  /\ calls = 2
  /\ data = limit + chunk_weight
  /\ NumChunks >= 1
  /\ cache[0] # None


\* the first ")" at or after position k
RECURSIVE FirstClose(_, _)
FirstClose(md, k) ==
  IF k > Len(md) THEN Len(md) + 1
  ELSE IF md[k] = ")" THEN k ELSE FirstClose(md, k + 1)

\* the paths of the image references ![](path) of a text
RefsIn(md) ==
  { SubSeq(md, k + 1, FirstClose(md, k + 1) - 1) :
      k \in {j \in 1..Len(md) : md[j] = "![]("} }

\* the images (path, url) of the result delivered for chunk i
ImagesOf(i) ==
  LET pages == fut[i].res.layoutParsingResults
  IN  { pages[p].images[j] :
          <<p, j>> \in { t \in (1..Len(pages)) \X (1..1) :
                           t[2] <= Len(pages[t[1]].images) } }

\* the part of the returned markdown that comes from chunk i
SectionOf(i) ==
  LET before == Concat([k \in 1..i |-> ChunkMarkdown(k - 1, fut[k - 1].res)],
                       1, i)
  IN  SubSeq(retval.markdown, Len(before) + 1,
             Len(before) + Len(ChunkMarkdown(i, fut[i].res)))

\* C12 as stated: two chunks with an image of the same relative path give
\* two distinct keys of the asset map, and each chunk's section of the
\* markdown refers to the key of its own chunk.
C12_AsStated ==
  mainpc = "returned" =>
    \A i \in Idx : \A j \in Idx : \A a \in ImagesOf(i) : \A b \in ImagesOf(j) :
      (i # j /\ a.path = b.path) =>
        /\ NewPath(i, a.path) # NewPath(j, b.path)
        /\ NewPath(i, a.path) \in DOMAIN retval.images_map
        /\ NewPath(j, b.path) \in DOMAIN retval.images_map
        /\ NewPath(i, a.path) \in RefsIn(SectionOf(i))
        /\ NewPath(j, b.path) \notin RefsIn(SectionOf(i))

\* C12 amended: the two keys are distinct, each chunk's section refers to
\* its own key and not to the other's nor to the original path, and every
\* one of the two images whose download did not raise is stored under its
\* own key.
C12_DistinctKeys ==
  mainpc = "returned" =>
    \A i \in Idx : \A j \in Idx : \A a \in ImagesOf(i) : \A b \in ImagesOf(j) :
      (i # j /\ a.path = b.path) =>
        /\ NewPath(i, a.path) # NewPath(j, b.path)
        /\ NewPath(i, a.path) \in RefsIn(SectionOf(i))
        /\ NewPath(j, b.path) \notin RefsIn(SectionOf(i))
        /\ a.path \notin RefsIn(SectionOf(i))
        /\ a.url \notin imgfail =>
             /\ NewPath(i, a.path) \in DOMAIN retval.images_map
             /\ retval.images_map[NewPath(i, a.path)] = Content(a.url)

\* three chunks with the same image path, all three images downloaded
C12_Witness ==
  /\ mainpc = "returned"
  /\ NumChunks = 3
  /\ imgfail = {}
  /\ Cardinality(DOMAIN retval.images_map) = 3
  /\ \A i \in Idx : ImgPath \in {a.path : a \in ImagesOf(i)}

\* C13 as stated: every path referenced in the returned markdown is a key of
\* the returned asset map.
C13_AsStated ==
  mainpc = "returned" =>
    RefsIn(retval.markdown) \subseteq DOMAIN retval.images_map

\* C13 amended: every path referenced in the returned markdown is a key of
\* the asset map, or is the new path of an image whose download raised.
C13_RefsHaveAssets ==
  mainpc = "returned" =>
    \A ref \in RefsIn(retval.markdown) :
      \/ ref \in DOMAIN retval.images_map
      \/ \E i \in Idx : \E a \in ImagesOf(i) :
           ref = NewPath(i, a.path) /\ a.url \in imgfail

\* a document returned with one image downloaded and another one missing
C13_Witness ==
  /\ mainpc = "returned"
  /\ NumChunks >= 2
  /\ imgfail # {}
  /\ DOMAIN retval.images_map # {}
  /\ Cardinality(RefsIn(retval.markdown)) = NumChunks


\* the values passed to progress_callback are fractions (numerator, denominator)
ProgressShape ==
  /\ \A j \in 1..Len(progress) :
       /\ progress[j][2] > 0
       /\ 0 <= progress[j][1] /\ progress[j][1] <= progress[j][2]
       /\ progress[j][1] * NumChunks = j * progress[j][2]
  /\ \A j \in 1..(Len(progress) - 1) :
       progress[j][1] * progress[j + 1][2] <= progress[j + 1][1] * progress[j][2]

OneEmitted == \E j \in 1..Len(progress) : progress[j][1] = progress[j][2]

AllChunksSucceeded == \A i \in Idx : i \in DOMAIN fut /\ fut[i].ok

\* C14 as stated: the progress values are non-decreasing, lie in [0,1], the
\* j-th is j / (number of chunks), and when the call has ended the value 1
\* has been emitted iff every chunk completed successfully.
C14_AsStated ==
  /\ ProgressShape
  /\ mainpc \in {"returned", "raised"} => (OneEmitted <=> AllChunksSucceeded)

\* C14 amended: as stated for a document of at least one chunk; for a
\* document without pages process_pdf returns without any progress value.
C14_Progress ==
  /\ ProgressShape
  /\ mainpc \in {"returned", "raised"} =>
       (OneEmitted <=> (NumChunks >= 1 /\ AllChunksSucceeded))
  /\ (mainpc = "returned" /\ NumChunks = 0) => progress = <<>>

\* three chunks completed out of order: 1/3, 2/3, 3/3 were emitted
C14_Witness ==
  /\ mainpc = "returned"
  /\ order = <<1, 2, 0>>
  /\ progress = <<<<1, 3>>, <<2, 3>>, <<3, 3>>>>


GatePassed ==
  \/ mainpc \in {"as_completed", "shutdown", "returned"}
  \/ mainpc = "raised" /\ error = "All API endpoints failed."

\* C15: once the gate check of a call has passed, today's usage stays within
\* the daily limit, but for the pages that the pool threads (max_workers of
\* them) can add at the same time.
C15_WithinLimit ==
  GatePassed =>
    /\ data <= limit + max_workers * chunk_weight
    /\ file <= limit + max_workers * chunk_weight


\* C16: once the loop has met a failed chunk, process_pdf can hand the error
\* to its caller at once, whatever the other chunks of the batch are doing.
C16_RaisesWithoutWaiting ==
  mainpc = "shutdown" => ENABLED Raise


\* the chunks whose cache entry was written by the current batch
WrittenByBatch == {i \in DOMAIN tres : tres[i] # None}

\* C17: at every point of a batch, the usage on disk has grown since the
\* start of the batch by the chunk weight for every cache entry the batch
\* has written.
C17_CrashConsistent ==
  GatePassed =>
    file = callstart.usage + chunk_weight * Cardinality(WrittenByBatch)

RECURSIVE SumAdds(_)
\* the add_usage calls that have returned, over the sessions 1..n
SumAdds(n) == IF n = 0 THEN 0 ELSE sess[n].nadds + SumAdds(n - 1)

SessInAddUsage == {"add_store", "add_save"}

\* C19: when no add_usage call is in progress, the counter on disk is the
\* sum of the increments made by all the sessions, and get_todays_usage of
\* every session's tracker equals it.
C19_SharedCounter ==
  (\A s \in DOMAIN sess : sess[s].pc \notin SessInAddUsage) =>
    /\ file = usage0 + chunk_weight * SumAdds(Len(sess))
    /\ \A s \in DOMAIN sess : sess[s].pc # "none" => sess[s].data = file

\* C20: a process_chunk call that found the cache entry present has returned
\* a complete parse result of its chunk, and every other finished call for
\* the same chunk that returned a result returned the same one.
C20_CacheReadSafe ==
  \A s \in DOMAIN sess :
    (sess[s].pc = "idle" /\ sess[s].hit) =>
      /\ sess[s].ret.ok
      /\ sess[s].ret.res \in {ParseResult("primary", sess[s].key),
                              ParseResult("secondary", sess[s].key)}
      /\ \A t \in DOMAIN sess :
           (/\ t # s /\ sess[t].pc = "idle" /\ sess[t].ret # None
            /\ sess[t].key = sess[s].key /\ sess[t].ret.ok)
             => sess[t].ret.res = sess[s].ret.res

\* the images of the chunk merged on its own, as <<page, item>> positions
MergeEntries ==
  { t \in (1..Len(mrg.pages)) \X (1..MaxPageImages + 1) :
      t[2] <= Len(mrg.pages[t[1]].images) }

EntryImage(t) == mrg.pages[t[1]].images[t[2]]

\* C21: once the merge of a chunk has returned, any two images of the chunk
\* whose relative paths differ and whose downloads did not raise have two
\* different keys in the asset map, and each key holds the bytes of its own
\* image (neither has overwritten the other).
C21_DistinctKeysInChunk ==
  mrg.pc = "returned" =>
    \A x, y \in MergeEntries :
      LET a == EntryImage(x)
          b == EntryImage(y)
          ka == NewPath(mrg.i, a.path)
          kb == NewPath(mrg.i, b.path)
      IN  (a.path # b.path /\ a.url \notin mrg.failed /\ b.url \notin mrg.failed)
            => /\ ka # kb
               /\ ka \in DOMAIN mrg.acc.images_map
               /\ kb \in DOMAIN mrg.acc.images_map
               /\ mrg.acc.images_map[ka] = Content(a.url)
               /\ mrg.acc.images_map[kb] = Content(b.url)

====
